---- MODULE Spec2Model ----
(***************************************************************************)
(* Model of the igcc session engine (src/igcc/run.py): line                *)
(* classification, the undo/redo history, program assembly, the            *)
(* incremental-output bookkeeping of Runner.do_run, and the entry point    *)
(* repl with its temporary executable file.                                *)
(*                                                                         *)
(* Representation.  A line of text is a sequence of tokens; the token "sp" *)
(* is one whitespace character, a word token is a maximal run of \w        *)
(* characters, every other token is one other character (or an opaque      *)
(* literal).  A text (a Python str that may hold newlines) is the          *)
(* non-empty sequence of its lines, i.e. str.split("\n"); the empty string *)
(* is the text with one empty line.  Byte streams are sequences of bytes.  *)
(***************************************************************************)
EXTENDS Integers, Sequences, FiniteSets, TLC

(* ------------------------------ bounds --------------------------------- *)

\* largest len(user_input) the model lets the session grow to
MaxHist == 3

\* largest number of lines in one submitted block
MaxBlock == 2

\* largest len(user_input) in the sessions of SpecControl
MaxControlHist == 2

\* the model follows a counter down to -MaxDebt and no further (an undo that
\* would take it lower is not explored)
MaxDebt == 2

\* longest visible prefix handed to the assembler in SpecAsm
MaxPrefix == 3

(* --------------------------- Python values ----------------------------- *)

\* Python's None where a str (a text or a line) is expected
None == << "<None>" >>

\* the empty str, as a text
EmptyStr == << <<>> >>

Max(a, b) == IF a >= b THEN a ELSE b

Min(a, b) == IF a <= b THEN a ELSE b

\* seq[start:] of Python, start possibly negative (bytes slicing, line 137)
PySliceFrom(s, start) ==
    LET n    == Len(s)
        from == IF start < 0 THEN Max(n + start, 0) ELSE Min(start, n)
    IN  SubSeq(s, from + 1, n)

\* a + b for two str values held as texts
StrCat(a, b) ==
    SubSeq(a, 1, Len(a) - 1) \o << a[Len(a)] \o b[1] >> \o SubSeq(b, 2, Len(b))

\* "\n".join(ls) for a list of newline-free strings
Join(ls) == IF ls = <<>> THEN EmptyStr ELSE ls

\* the one-character str "\n"
NL == << <<>>, <<>> >>

\* str.strip() == "" for one line
IsBlankLine(line) == \A i \in 1..Len(line) : line[i] = "sp"

(* ------------------------------ tokens --------------------------------- *)

Keywords == {"static", "inline", "constexpr", "virtual", "extern"}

Qualifiers == <<"const", "noexcept", "override", "final">>

\* tokens that are runs of \w characters
WordTokens ==
    Keywords \cup {"const", "noexcept", "override", "final", "template",
                   "include", "using", "int", "T", "f", "x", "print",
                   "main", "void", "return", "0"}

IsWord(t) == t \in WordTokens

IsSpace(t) == t = "sp"

\* the character class [\w\s\*&:<>,] of FUNC_DEF_RE
IsTypeChar(t) == IsWord(t) \/ IsSpace(t) \/ t \in {"*", "&", ":", "<", ">", ","}

\* position reached by \s* from position i (greedy)
RECURSIVE SkipSpaces(_, _)
SkipSpaces(x, i) ==
    IF i <= Len(x) /\ IsSpace(x[i]) THEN SkipSpaces(x, i + 1) ELSE i

At(x, i) == IF i >= 1 /\ i <= Len(x) THEN x[i] ELSE "<eol>"

(* ---------------------------- PREAMBLE_RE ------------------------------ *)

\* first alternative: \s*(#\s*include)
PreambleInclude(x) ==
    LET i == SkipSpaces(x, 1)
    IN  /\ At(x, i) = "#"
        /\ At(x, SkipSpaces(x, i + 1)) = "include"

\* second alternative: (using)\s , anchored at the start of the line
PreambleUsing(x) == At(x, 1) = "using" /\ IsSpace(At(x, 2))

\* PREAMBLE_RE.match(x) is not None
PREAMBLE_RE(x) == PreambleInclude(x) \/ PreambleUsing(x)

(* ---------------------------- FUNC_DEF_RE ------------------------------ *)

\* positions after template\s*<[^>]*> starting at i (empty if no match)
TemplateEnds(x, i) ==
    IF At(x, i) # "template" THEN {}
    ELSE LET lt == SkipSpaces(x, i + 1)
         IN  IF At(x, lt) # "<" THEN {}
             ELSE {j + 1 : j \in {k \in (lt + 1)..Len(x) :
                                    /\ x[k] = ">"
                                    /\ \A m \in (lt + 1)..(k - 1) : x[m] # ">"}}

\* positions after one (keyword|template<..>)\s+ group starting at i
KeywordGroupEnds(x, i) ==
    LET ends == (IF At(x, i) \in Keywords THEN {i + 1} ELSE {})
                    \cup TemplateEnds(x, i)
    IN  {SkipSpaces(x, e) : e \in {e \in ends : IsSpace(At(x, e))}}

\* positions after zero or more keyword groups starting at i
RECURSIVE KeywordEnds(_, _)
KeywordEnds(x, i) ==
    {i} \cup UNION {KeywordEnds(x, j) : j \in KeywordGroupEnds(x, i)}

\* positions after (?:q\s*)? for the k-th qualifier, starting from any of ps
QualifierEnds(x, ps, k) ==
    ps \cup {SkipSpaces(x, p + 1) : p \in {p \in ps : At(x, p) = Qualifiers[k]}}

\* (\w+)\s*\([^)]*\)\s* quals \{  with the name at position n
FuncTailMatches(x, n) ==
    LET lp == SkipSpaces(x, n + 1)
        rp == CHOOSE r \in (lp + 1)..(Len(x) + 1) :
                  /\ (r = Len(x) + 1 \/ x[r] = ")")
                  /\ \A m \in (lp + 1)..(r - 1) : x[m] # ")"
        q0 == {SkipSpaces(x, rp + 1)}
        q4 == QualifierEnds(x, QualifierEnds(x,
                  QualifierEnds(x, QualifierEnds(x, q0, 1), 2), 3), 4)
    IN  /\ IsWord(At(x, n))
        /\ At(x, lp) = "("
        /\ rp <= Len(x)
        /\ \E p \in q4 : At(x, p) = "{"

\* FUNC_DEF_RE.match(x) is not None
FUNC_DEF_RE(x) ==
    \E p \in KeywordEnds(x, SkipSpaces(x, 1)) :
        /\ IsWord(At(x, p))
        /\ \E n \in (p + 2)..Len(x) :
              /\ \A m \in (p + 1)..(n - 1) : IsTypeChar(x[m])
              /\ IsSpace(x[n - 1])
              /\ FuncTailMatches(x, n)

(* ------------------------ submitted line texts -------------------------- *)

\* #include <string>
LineInclude == <<"#", "include", "sp", "<string>">>

\* int f() {}
LineFunction == <<"int", "sp", "f", "(", ")", "sp", "{", "}">>

\* using T f() {      (matches PREAMBLE_RE and FUNC_DEF_RE)
LineUsingFunction == <<"using", "sp", "T", "sp", "f", "(", ")", "sp", "{">>

\* print();           (a statement that writes the two bytes "5\n" to
\* standard output and the byte "e" to standard error)
LinePrint == <<"print", "(", ")", ";">>

\* x = ;              (does not compile)
LineBad == <<"x", "=", ";">>

\* a line of one space
LineSpace == <<"sp">>

\* an empty line
LineEmpty == <<>>

\* using T;
LineUsing == <<"using", "sp", "T", ";">>

\* the same using line after one space
LineIndentedUsing == <<"sp", "using", "sp", "T", ";">>

\* the include line after one space
LineIndentedInclude == <<"sp", "#", "include", "sp", "<string>">>

\* line texts submitted in the sessions of Spec
SessionLines == {LinePrint, LineSpace, LineBad}

\* line texts submitted in the sessions of SpecControl
ControlLines == {LinePrint, LineBad}

\* line texts of the visible prefixes of SpecAsm
AsmLines ==
    {LineInclude, LineFunction, LineUsingFunction, LinePrint, LineSpace,
     LineEmpty, LineUsing, LineIndentedUsing, LineIndentedInclude}

\* the blocks read_from_stdin can return: 1..MaxBlock lines out of a set
Blocks(lines) == UNION {[1..k -> lines] : k \in 1..MaxBlock}

(* ------------------------------ UserInput ------------------------------ *)

\* UserInput(x, is_include=..., is_function=...) as built in do_run
UserInput(x) ==
    [inp          |-> x,
     is_include   |-> PREAMBLE_RE(x),
     is_function  |-> FUNC_DEF_RE(x),
     output_chars |-> 0,
     error_chars  |-> 0]

\* every line text of the model, and the entry do_run builds for each
AllLines == SessionLines \cup ControlLines \cup AsmLines

Classified == [x \in AllLines |-> UserInput(x)]

\* [UserInput(x, ...) for x in inp]
NewInputs(inp) == [i \in 1..Len(inp) |-> Classified[inp[i]]]

(* --------------------------- program assembly --------------------------- *)

\* itertools.islice(user_input, 0, input_num)
get_user_input(ui, n) == SubSeq(ui, 1, Min(n, Len(ui)))

\* [a.inp for a in entries]
Inps(entries) == [i \in 1..Len(entries) |-> entries[i].inp]

IsCommand(a) == ~a.is_include /\ ~a.is_function

IsInclude(a) == a.is_include

IsFunction(a) == a.is_function

get_user_commands_string(ui, n) ==
    Join(Inps(SelectSeq(get_user_input(ui, n), IsCommand)))

get_user_includes_string(ui, n) ==
    Join(Inps(SelectSeq(get_user_input(ui, n), IsInclude)))

get_user_functions_string(ui, n) ==
    Join(Inps(SelectSeq(get_user_input(ui, n), IsFunction)))

Indent4 == <<"sp", "sp", "sp", "sp">>

\* jinja2's indent(4, first=False): every line but the first is indented
\* unless it is empty
indent(s) ==
    [i \in 1..Len(s) |-> IF i = 1 \/ s[i] = <<>> THEN s[i] ELSE Indent4 \o s[i]]

BoilerplateLine == <<"#", "include", "sp", "\"boilerplate.h\"">>

MainLine == <<"int", "sp", "main", "(", "void", ")", "sp", "{">>

ReturnLine == Indent4 \o <<"return", "sp", "0", ";">>

\* SOURCE_CODE_TEMPLATE.render(...): the template's literal text around the
\* two {% if %} blocks and the three substitutions
SOURCE_CODE_TEMPLATE(user_includes, user_functions, user_input_str) ==
    LET head == <<BoilerplateLine, <<>>>>
        incl == IF user_includes # EmptyStr
                THEN StrCat(StrCat(NL, user_includes), NL) ELSE EmptyStr
        func == IF user_functions # EmptyStr
                THEN StrCat(StrCat(NL, user_functions), NL) ELSE EmptyStr
        main == StrCat(StrCat(<<<<>>, MainLine, Indent4>>, indent(user_input_str)),
                       <<<<>>, ReturnLine, <<"}">>>>)
    IN  StrCat(StrCat(StrCat(StrCat(head, incl), NL), func), main)

\* the loop of _clean_source over lines[i..], prev_blank as in the code
RECURSIVE CleanFrom(_, _, _)
CleanFrom(lines, i, prev_blank) ==
    IF i > Len(lines) THEN <<>>
    ELSE LET is_blank == IsBlankLine(lines[i])
         IN  IF is_blank /\ prev_blank
             THEN CleanFrom(lines, i + 1, prev_blank)
             ELSE <<lines[i]>> \o CleanFrom(lines, i + 1, is_blank)

\* mutant of clean_source: only empty lines count as blank (no strip())
RECURSIVE CleanEmptyFrom(_, _, _)
CleanEmptyFrom(lines, i, prev_blank) ==
    IF i > Len(lines) THEN <<>>
    ELSE LET is_blank == lines[i] = <<>>
         IN  IF is_blank /\ prev_blank
             THEN CleanEmptyFrom(lines, i + 1, prev_blank)
             ELSE <<lines[i]>> \o CleanEmptyFrom(lines, i + 1, is_blank)

clean_source_no_strip(src) == CleanEmptyFrom(src, 1, FALSE)

clean_source(src) == CleanFrom(src, 1, FALSE)

get_full_source(ui, n) ==
    clean_source(SOURCE_CODE_TEMPLATE(get_user_includes_string(ui, n),
                                      get_user_functions_string(ui, n),
                                      get_user_commands_string(ui, n)))

(* ----------------------- external collaborators ------------------------- *)

\* a line with its leading whitespace removed
Unindent(line) == SubSeq(line, SkipSpaces(line, 1), Len(line))

\* exit status 0 of the compiler: it rejects a program holding the
\* ill-formed statement or the function header that is also a using line
CompilerAccepts(src) ==
    \A i \in 1..Len(src) : Unindent(src[i]) \notin {LineBad, LineUsingFunction}

\* bytes one statement of the program writes to a stream
RECURSIVE BytesOf(_, _, _)
BytesOf(src, stmt, bytes) ==
    IF src = <<>> THEN <<>>
    ELSE (IF Unindent(Head(src)) = stmt THEN bytes ELSE <<>>)
             \o BytesOf(Tail(src), stmt, bytes)

\* the streams communicate() captures from the binary built from src
RunStdout(src) == BytesOf(src, LinePrint, <<"5", "nl">>)

RunStderr(src) == BytesOf(src, LinePrint, <<"e">>)

(* ------------------------------- state ---------------------------------- *)

VARIABLES
    user_input,            \* Runner.user_input: the list of UserInput entries
    input_num,             \* Runner.input_num: how many leading entries are active
    compile_error,         \* Runner.compile_error
    output_chars_printed,  \* Runner.output_chars_printed
    error_chars_printed,   \* Runner.error_chars_printed
    show_line_numbers,     \* Runner.show_line_numbers
    pc,                    \* where repl is: "repl" on entry, "read" when do_run is
                           \* about to read input, "done" / "interrupted" / "failed"
                           \* once the loop was left, "returned" / "raised" at the end
    exec_file,             \* exec_filename: "unset" (None), or the file it names
                           \* is "absent" or "present"
    seen,                  \* positions of the bytes of the visible program's
                           \* standard output shown since their line became visible
    turn,                  \* what the last turn of the loop read, did and displayed
    last_compile,          \* outcome of the most recent run_compile: "none", "ok", "failed"
    probe,                 \* the cursor and counters before the last append, and the undos since
    src                    \* SpecAsm: the text get_full_source returned, None before the call

vars ==
    <<user_input, input_num, compile_error, output_chars_printed,
      error_chars_printed, show_line_numbers, pc, exec_file, seen, turn,
      last_compile, probe, src>>

(* ------------------------------ run_compile ----------------------------- *)

PlaceholderError ==
    <<"Unknown compile error - compiler did not write any output.">>

\* the diagnostics a failing compiler may write to its standard error
Diagnostics == {<<>>, <<"diag">>}

\* mutant of run_compile: no placeholder for empty diagnostics
run_compile_no_placeholder(accepted, stdout_data, stderr_data) ==
    IF accepted THEN None
    ELSE (IF stdout_data # None THEN stdout_data ELSE <<>>)
             \o (IF stderr_data # None THEN stderr_data ELSE <<>>)

\* run_compile after communicate(): accepted is returncode == 0
run_compile(accepted, stdout_data, stderr_data) ==
    IF accepted THEN None
    ELSE LET out0 == <<>>
             out1 == IF stdout_data # None THEN out0 \o stdout_data ELSE out0
             out2 == IF stderr_data # None THEN out1 \o stderr_data ELSE out1
         IN  IF out2 = <<>> THEN PlaceholderError ELSE out2

\* mutant of RunsBinary: the `continue` after a compile error is missing
RunsBinaryAlways(ce) == TRUE

\* `if self.compile_error is not None: ... continue`: whether the binary
\* is executed after run_compile returned ce
RunsBinary(ce) == ce = None

(* ------------------------- compile + run cycle -------------------------- *)

\* the file exec_filename names after a compile: a compiler that exits with
\* status 0 has written the binary that line 132 executes
Built(file, accepted) == IF accepted THEN "present" ELSE file

\* the index of user_input[-1], the entry new output is attributed to
LastEntry(ui) == Len(ui)

\* lines 136-142 / 145-151 for one stream: what is displayed, the counter
\* afterwards, and the count to attribute
DiffStream(stream, printed) ==
    IF Len(stream) > printed
    THEN LET new_output == PySliceFrom(stream, printed)
         IN  [shown |-> new_output, printed |-> printed + Len(new_output),
              fresh |-> TRUE, len_new |-> Len(new_output)]
    ELSE [shown |-> None, printed |-> printed, fresh |-> FALSE, len_new |-> 0]

\* lines 127-152 given what run_compile returned (ce), what communicate()
\* captured, and the outcome o, e of the comparison of each stream with its
\* counter: the fields of the Runner afterwards and what was displayed
CycleRecord(ok, ce, stdout, stderr, o, e, ui, ocp, ecp, stderr_data) ==
    LET ui1    == IF o.fresh
                  THEN [ui EXCEPT ![LastEntry(ui)].output_chars = o.len_new]
                  ELSE ui
        ui2    == IF e.fresh
                  THEN [ui1 EXCEPT ![LastEntry(ui1)].error_chars = e.len_new]
                  ELSE ui1
    IN  IF RunsBinary(ce)
        THEN [user_input |-> ui2, compile_error |-> ce, accepted |-> ok,
              ocp |-> o.printed, ecp |-> e.printed, diag |-> stderr_data,
              ran |-> TRUE, stdout |-> stdout, stderr |-> stderr,
              out |-> o.shown, err |-> e.shown]
        ELSE [user_input |-> ui, compile_error |-> ce, accepted |-> ok,
              ocp |-> ocp, ecp |-> ecp, diag |-> stderr_data,
              ran |-> FALSE, stdout |-> None, stderr |-> None,
              out |-> None, err |-> None]

\* lines 125-152 for a compiler that exits with ok and a binary that writes
\* stdout and stderr
CycleStreams(ok, stdout, stderr, ui, ocp, ecp, stderr_data) ==
    CycleRecord(ok, run_compile(ok, None, stderr_data), stdout, stderr,
                DiffStream(stdout, ocp), DiffStream(stderr, ecp),
                ui, ocp, ecp, stderr_data)

\* lines 124-152 once the program text is assembled: history ui, counters
\* ocp and ecp, and a compiler that writes stderr_data when it fails
RunCycleOn(text, ui, ocp, ecp, stderr_data) ==
    CycleStreams(CompilerAccepts(text), RunStdout(text), RunStderr(text),
                 ui, ocp, ecp, stderr_data)

\* run_compile assembles the program from the visible prefix (line 196)
RunCycle(ui, n, ocp, ecp, stderr_data) ==
    RunCycleOn(get_full_source(ui, n), ui, ocp, ecp, stderr_data)

(* ----------------------------- undo / redo ------------------------------ *)

\* mutant of redo: returns the text of user_input[-1]
redo_last(ui, n) ==
    IF n >= Len(ui) THEN [input_num |-> n, ret |-> None]
    ELSE [input_num |-> n + 1, ret |-> ui[Len(ui)].inp]

\* mutant of redo: the guard is input_num > len(user_input)
redo_past_end(ui, n) ==
    IF n > Len(ui) THEN [input_num |-> n, ret |-> None]
    ELSE [input_num |-> n + 1,
          ret |-> IF n < Len(ui) THEN ui[n + 1].inp ELSE None]

\* Runner.redo: the new input_num and the returned text
redo(ui, n) ==
    IF n >= Len(ui) THEN [input_num |-> n, ret |-> None]
    ELSE [input_num |-> n + 1, ret |-> ui[n + 1].inp]

\* mutant of Subtract: the counter is not rolled back
SubtractNothing(x, chars) == x

\* x -= undone_input.chars  (lines 167, 168)
Subtract(x, chars) == x - chars

\* Runner.undo: the new input_num and counters, and the returned text
undo(ui, n, ocp, ecp) ==
    IF n = 0 THEN [input_num |-> n, ocp |-> ocp, ecp |-> ecp, ret |-> None]
    ELSE [input_num |-> n - 1,
          ocp       |-> Subtract(ocp, ui[n].output_chars),
          ecp       |-> Subtract(ecp, ui[n].error_chars),
          ret       |-> ui[n].inp]

\* mutant of Truncate: the redo-able entries are kept
TruncateNothing(ui, n) == ui

\* lines 110-111: discard the redo-able entries before new input is pushed
Truncate(ui, n) == IF n < Len(ui) THEN SubSeq(ui, 1, n) ELSE ui

(* ----------------------- what the user has seen ------------------------- *)

\* the positions in the stream of the bytes a cycle displayed: the slice
\* stdout[printed:] of line 137, when line 136 lets it be displayed
ShownPositions(c, printed) ==
    IF c.ran /\ c.out # None
    THEN (Len(c.stdout) - Len(c.out) + 1)..Len(c.stdout)
    ELSE {}

\* the standard output of the statements of the visible prefix, in order
VisibleOutput(ui, n) == RunStdout(get_user_commands_string(ui, n))

\* the shown positions whose line is still among the first n entries
StillVisible(positions, ui, n) ==
    {p \in positions : p <= Len(VisibleOutput(ui, n))}

(* --------------------------- handler returns ---------------------------- *)

\* the pair (col_inp, run_compiler) a handler hands back to do_run through
\* check_input_type (line 107)
Flags(col_inp, run_compiler) ==
    [col_inp |-> col_inp, run_compiler |-> run_compiler]

\* mutant of dot_h: the handler asks for a compile
dot_h_compiles == Flags(FALSE, TRUE)

\* `return False, False` of the handlers that only print
dot_h == Flags(FALSE, FALSE)

dot_c == Flags(FALSE, FALSE)

dot_e == Flags(FALSE, FALSE)

dot_l == Flags(FALSE, FALSE)

dot_L == Flags(FALSE, FALSE)

dot_v == Flags(FALSE, FALSE)

dot_n == Flags(FALSE, FALSE)

\* mutant of dot_u: an undo that took a line back asks for a compile
dot_u_compiles(undone_line) == Flags(FALSE, undone_line # None)

\* dot_u returns (False, False) on both branches (line 292)
dot_u(undone_line) == Flags(FALSE, FALSE)

\* dot_r returns (False, True) when redo gave a line (line 280), else
\* (False, False) (line 283)
dot_r(redone_line) ==
    IF redone_line # None THEN Flags(FALSE, TRUE) ELSE Flags(FALSE, FALSE)

(* ------------------------- record of the last turn ---------------------- *)

\* the text and the two classification flags of the entries 0 .. n-1
Visible(ui, n) ==
    [i \in 1..n |-> [inp |-> ui[i].inp, is_include |-> ui[i].is_include,
                     is_function |-> ui[i].is_function]]

\* the turn t before a redo turn, as far as a redo is concerned
Before(t) ==
    IF t.kind = "input"
    THEN (IF t.discarded > 0 THEN "truncating input" ELSE "input")
    ELSE IF t.kind = "undo" THEN "undo" ELSE "other"

\* a turn that neither compiles nor runs
Quiet(kind, ret, said) ==
    [kind |-> kind, prev |-> "-", inp |-> None, discarded |-> 0,
     before |-> <<>>, ret |-> ret, said |-> said, compiled |-> FALSE,
     accepted |-> FALSE, diag |-> None, ran |-> FALSE, stdout |-> None, stderr |-> None,
     out |-> None, err |-> None]

\* a turn that went through the compile + run cycle c
Cycled(kind, ret, c) ==
    [Quiet(kind, ret, None) EXCEPT
        !.compiled = TRUE, !.accepted = c.accepted, !.diag = c.diag,
        !.ran = c.ran,
        !.stdout = c.stdout, !.stderr = c.stderr, !.out = c.out,
        !.err = c.err]

NoProbe ==
    [k |-> 0, input_num |-> 0, ocp |-> 0, ecp |-> 0, undone |-> 0,
     shown |-> FALSE]

(* -------------------------------- Init ---------------------------------- *)

\* Runner.__init__
Init ==
    /\ user_input = <<>>
    /\ input_num = 0
    /\ compile_error = <<>>
    /\ output_chars_printed = 0
    /\ error_chars_printed = 0
    /\ show_line_numbers = FALSE
    /\ pc = "read"
    /\ exec_file = "present"
    /\ seen = {}
    /\ turn = Quiet("start", None, None)
    /\ last_compile = "none"
    /\ probe = NoProbe
    /\ src = None

(* ------------------------------- actions -------------------------------- *)

\* ordinary input: check_input_type returns (True, True); lines 109-152
Input(inp, stderr_data) ==
    /\ pc = "read"
    /\ LET n == input_num + Len(inp)
       IN  \E c \in {RunCycle(Truncate(user_input, input_num) \o NewInputs(inp),
                              n, output_chars_printed, error_chars_printed,
                              stderr_data)} :
           /\ user_input' = c.user_input
           /\ input_num' = n
           /\ compile_error' = c.compile_error
           /\ output_chars_printed' = c.ocp
           /\ error_chars_printed' = c.ecp
           /\ turn' = [Cycled("input", None, c) EXCEPT
                          !.inp = inp,
                          !.discarded = Len(user_input) - input_num]
           /\ last_compile' = IF c.accepted THEN "ok" ELSE "failed"
           /\ exec_file' = Built(exec_file, c.accepted)
           /\ seen' = seen \cup ShownPositions(c, output_chars_printed)
           /\ probe' = [k |-> Len(inp), input_num |-> input_num,
                        ocp |-> output_chars_printed,
                        ecp |-> error_chars_printed, undone |-> 0,
                        shown |-> c.out # None /\ c.err # None]
    /\ UNCHANGED <<show_line_numbers, pc, src>>

\* .r : dot_r, then the compile + run cycle when a line was redone
DotR(stderr_data) ==
    /\ pc = "read"
    /\ \E r \in {redo(user_input, input_num)} :
       \E c \in {RunCycle(user_input, r.input_num, output_chars_printed,
                          error_chars_printed, stderr_data)} :
           IF dot_r(r.ret).run_compiler
           THEN /\ user_input' = c.user_input
                /\ input_num' = r.input_num
                /\ compile_error' = c.compile_error
                /\ output_chars_printed' = c.ocp
                /\ error_chars_printed' = c.ecp
                /\ turn' = [Cycled("redo", r.ret, c) EXCEPT
                               !.prev = Before(turn)]
                /\ last_compile' = IF c.accepted THEN "ok" ELSE "failed"
                /\ exec_file' = Built(exec_file, c.accepted)
                /\ seen' = seen \cup ShownPositions(c, output_chars_printed)
           ELSE /\ input_num' = r.input_num
                /\ turn' = [Quiet("redo", None, None) EXCEPT
                               !.prev = Before(turn)]
                /\ UNCHANGED <<user_input, compile_error, last_compile,
                               exec_file, output_chars_printed,
                               error_chars_printed, seen>>
    /\ probe' = NoProbe
    /\ UNCHANGED <<show_line_numbers, pc, src>>

\* .u : dot_u, then whatever do_run does with the flags it returned
DotU ==
    /\ pc = "read"
    /\ LET u == undo(user_input, input_num, output_chars_printed,
                     error_chars_printed)
       IN  /\ input_num' = u.input_num
           /\ IF dot_u(u.ret).run_compiler
              THEN \E c \in {RunCycle(user_input, u.input_num, u.ocp, u.ecp,
                                      <<"diag">>)} :
                       /\ user_input' = c.user_input
                       /\ compile_error' = c.compile_error
                       /\ output_chars_printed' = c.ocp
                       /\ error_chars_printed' = c.ecp
                       /\ turn' = [Cycled("undo", u.ret, c) EXCEPT
                                      !.before = Visible(user_input, input_num)]
                       /\ last_compile' = IF c.accepted THEN "ok" ELSE "failed"
                       /\ exec_file' = Built(exec_file, c.accepted)
                       /\ seen' = StillVisible(seen, user_input, u.input_num)
                                      \cup ShownPositions(c, u.ocp)
              ELSE /\ output_chars_printed' = u.ocp
                   /\ error_chars_printed' = u.ecp
                   /\ turn' = [Quiet("undo", u.ret, None) EXCEPT
                                  !.before = Visible(user_input, input_num)]
                   /\ seen' = StillVisible(seen, user_input, u.input_num)
                   /\ UNCHANGED <<user_input, compile_error, last_compile,
                                  exec_file>>
           /\ probe' = IF probe.k > 0 /\ probe.undone < probe.k /\ u.ret # None
                       THEN [probe EXCEPT !.undone = @ + 1] ELSE NoProbe
    /\ UNCHANGED <<show_line_numbers, pc, src>>

\* what dot_e prints (lines 238-241)
ErrorReport(ce) ==
    IF ce \in {None, <<>>} THEN <<"No compile errors">> ELSE ce

\* the turn of a handler that changes no field of the Runner itself: do_run
\* skips lines 109-122 (col_inp is False) and enters lines 124-152 only if
\* the handler returned run_compiler
Display(kind, flags, said) ==
    /\ pc = "read"
    /\ IF flags.run_compiler
       THEN \E d \in Diagnostics :
            \E c \in {RunCycle(user_input, input_num, output_chars_printed,
                               error_chars_printed, d)} :
                /\ user_input' = c.user_input
                /\ compile_error' = c.compile_error
                /\ output_chars_printed' = c.ocp
                /\ error_chars_printed' = c.ecp
                /\ turn' = [Cycled(kind, None, c) EXCEPT !.said = said]
                /\ last_compile' = IF c.accepted THEN "ok" ELSE "failed"
                /\ exec_file' = Built(exec_file, c.accepted)
                /\ seen' = seen \cup ShownPositions(c, output_chars_printed)
       ELSE /\ turn' = Quiet(kind, None, said)
            /\ UNCHANGED <<user_input, compile_error, output_chars_printed,
                           error_chars_printed, last_compile, exec_file,
                           seen>>
    /\ probe' = NoProbe
    /\ UNCHANGED <<input_num, show_line_numbers, pc, src>>

\* .e : dot_e
DotE == Display("show-errors", dot_e, ErrorReport(compile_error))

\* .n : dot_n
DotN ==
    /\ pc = "read"
    /\ show_line_numbers' = ~show_line_numbers
    /\ IF dot_n.run_compiler
       THEN \E d \in Diagnostics :
            \E c \in {RunCycle(user_input, input_num, output_chars_printed,
                               error_chars_printed, d)} :
                /\ user_input' = c.user_input
                /\ compile_error' = c.compile_error
                /\ output_chars_printed' = c.ocp
                /\ error_chars_printed' = c.ecp
                /\ turn' = Cycled("toggle-line-numbers", None, c)
                /\ last_compile' = IF c.accepted THEN "ok" ELSE "failed"
                /\ exec_file' = Built(exec_file, c.accepted)
                /\ seen' = seen \cup ShownPositions(c, output_chars_printed)
       ELSE /\ turn' = Quiet("toggle-line-numbers", None, None)
            /\ UNCHANGED <<user_input, compile_error, output_chars_printed,
                           error_chars_printed, last_compile, exec_file,
                           seen>>
    /\ probe' = NoProbe
    /\ UNCHANGED <<input_num, pc, src>>

\* .h : dot_h
DotH == Display("help", dot_h, None)

\* .c : dot_c
DotC == Display("clear-screen", dot_c, None)

\* .l : dot_l
DotL == Display("list", dot_l, None)

\* .L : dot_L
DotLL == Display("list-full", dot_L, None)

\* .v : dot_v
DotV == Display("visualize", dot_v, None)

\* any other input starting with a dot: check_input_type returns dot_h()
Unknown == Display("unknown", dot_h, None)

\* .q : dot_q raises IGCCQuitError, which ends do_run
DotQ ==
    /\ pc = "read"
    /\ pc' = "done"
    /\ turn' = Quiet("quit", None, None)
    /\ probe' = NoProbe
    /\ UNCHANGED <<user_input, input_num, compile_error, output_chars_printed,
                   error_chars_printed, show_line_numbers, last_compile, src,
                   exec_file, seen>>

\* read_from_stdin returns None: break
EndOfInput ==
    /\ pc = "read"
    /\ pc' = "done"
    /\ turn' = Quiet("end-of-input", None, None)
    /\ probe' = NoProbe
    /\ UNCHANGED <<user_input, input_num, compile_error, output_chars_printed,
                   error_chars_printed, show_line_numbers, last_compile, src,
                   exec_file, seen>>

(* ---------------------------- specifications ---------------------------- *)

SessionBlocks == Blocks(SessionLines)

ControlBlocks == Blocks(ControlLines)

\* the bounds on what is explored: the history stays within cap entries and
\* the counters stay at or above -MaxDebt
Fits(inp, cap) == input_num + Len(inp) <= cap

WithinDebt ==
    /\ output_chars_printed' >= -MaxDebt
    /\ error_chars_printed' >= -MaxDebt

\* the history engine: ordinary input, undo and redo with a compiler that
\* always writes diagnostics when it fails
Next ==
    \/ \E inp \in SessionBlocks :
           Fits(inp, MaxHist) /\ Input(inp, <<"diag">>)
    \/ DotR(<<"diag">>)
    \/ DotU /\ WithinDebt

Spec == Init /\ [][Next]_vars

\* every command of the loop, with a compiler that may fail silently
NextControl ==
    \/ \E inp \in ControlBlocks, d \in Diagnostics :
           Fits(inp, MaxControlHist) /\ Input(inp, d)
    \/ \E d \in Diagnostics : DotR(d)
    \/ DotU /\ WithinDebt
    \/ DotE
    \/ DotN
    \/ DotH
    \/ DotC
    \/ DotL
    \/ DotLL
    \/ DotV
    \/ Unknown
    \/ DotQ
    \/ EndOfInput

SpecControl == Init /\ [][NextControl]_vars

(* -------------------------------- repl ---------------------------------- *)

\* largest len(user_input) in the sessions of SpecRepl
MaxReplHist == 1

\* what get_tmp_filename may leave at the path it returns
TmpFileStates == {"absent", "present"}

\* entry of repl: exec_filename = None (line 331), the Runner not yet built
InitRepl ==
    /\ user_input = <<>>
    /\ input_num = 0
    /\ compile_error = <<>>
    /\ output_chars_printed = 0
    /\ error_chars_printed = 0
    /\ show_line_numbers = FALSE
    /\ pc = "repl"
    /\ exec_file = "unset"
    /\ seen = {}
    /\ turn = Quiet("start", None, None)
    /\ last_compile = "none"
    /\ probe = NoProbe
    /\ src = None

\* lines 335-337 up to the first read of do_run
Start ==
    /\ pc = "repl"
    /\ pc' = "read"
    /\ exec_file' \in TmpFileStates
    /\ UNCHANGED <<user_input, input_num, compile_error, output_chars_printed,
                   error_chars_printed, show_line_numbers, turn, last_compile,
                   probe, src,
                   seen>>

\* lines 335-337 raise: before exec_filename is assigned (parse_args) or
\* after it; a KeyboardInterrupt or any other exception
StartRaises ==
    /\ pc = "repl"
    /\ \E how \in {"interrupt", "error"} :
           /\ pc' = IF how = "interrupt" THEN "interrupted" ELSE "failed"
           /\ turn' = Quiet(how, None, None)
    /\ exec_file' \in {"unset"} \cup TmpFileStates
    /\ UNCHANGED <<user_input, input_num, compile_error, output_chars_printed,
                   error_chars_printed, show_line_numbers, last_compile,
                   probe, src,
                   seen>>

\* KeyboardInterrupt while do_run reads or while a turn is under way (the
\* turn may have compiled already); the Runner is not used again
Interrupt ==
    /\ pc = "read"
    /\ pc' = "interrupted"
    /\ \E accepted \in BOOLEAN : exec_file' = Built(exec_file, accepted)
    /\ turn' = Quiet("interrupt", None, None)
    /\ probe' = NoProbe
    /\ UNCHANGED <<user_input, input_num, compile_error, output_chars_printed,
                   error_chars_printed, show_line_numbers, last_compile, src,
                   seen>>

\* any other exception raised during a turn (Popen, decode("utf8"), ...)
Crash ==
    /\ pc = "read"
    /\ pc' = "failed"
    /\ \E accepted \in BOOLEAN : exec_file' = Built(exec_file, accepted)
    /\ turn' = Quiet("error", None, None)
    /\ probe' = NoProbe
    /\ UNCHANGED <<user_input, input_num, compile_error, output_chars_printed,
                   error_chars_printed, show_line_numbers, last_compile, src,
                   seen>>

\* mutant of unlink: the file is left in place
unlink_keeps(file) == file

\* exec_filename.unlink()   (line 343)
unlink(file) == "absent"

\* `except (IGCCQuitError, KeyboardInterrupt): pass` and the finally clause
\* (lines 338-343); any other exception leaves repl after the clause
Finally ==
    /\ pc \in {"done", "interrupted", "failed"}
    /\ exec_file' = IF exec_file # "unset" /\ exec_file = "present"
                    THEN unlink(exec_file) ELSE exec_file
    /\ pc' = IF pc = "failed" THEN "raised" ELSE "returned"
    /\ UNCHANGED <<user_input, input_num, compile_error, output_chars_printed,
                   error_chars_printed, show_line_numbers, turn, last_compile,
                   probe, src,
                   seen>>

\* a whole run of repl, with every way of leaving the loop
NextRepl ==
    \/ Start
    \/ StartRaises
    \/ \E inp \in ControlBlocks, d \in Diagnostics :
           Fits(inp, MaxReplHist) /\ Input(inp, d)
    \/ \E d \in Diagnostics : DotR(d)
    \/ DotU /\ WithinDebt
    \/ DotE
    \/ DotQ
    \/ EndOfInput
    \/ Interrupt
    \/ Crash
    \/ Finally

SpecRepl == InitRepl /\ [][NextRepl]_vars

\* the assembler as a function of the visible prefix: any history of at most
\* MaxPrefix classified lines with any cursor
InitAsm ==
    /\ user_input \in
           UNION {{NewInputs(b) : b \in [1..k -> AsmLines]} : k \in 0..MaxPrefix}
    /\ input_num \in 0..Len(user_input)
    /\ compile_error = <<>>
    /\ output_chars_printed = 0
    /\ error_chars_printed = 0
    /\ show_line_numbers = FALSE
    /\ pc = "read"
    /\ exec_file = "present"
    /\ seen = {}
    /\ turn = Quiet("start", None, None)
    /\ last_compile = "none"
    /\ probe = NoProbe
    /\ src = None

\* src = self.get_full_source()   (line 196)
Assemble ==
    /\ src = None
    /\ src' = get_full_source(user_input, input_num)
    /\ UNCHANGED <<user_input, input_num, compile_error, output_chars_printed,
                   error_chars_printed, show_line_numbers, pc, exec_file,
                   turn, last_compile, probe, seen>>

NextAsm == Assemble

SpecAsm == InitAsm /\ [][NextAsm]_vars

(* ------------------------------- claims --------------------------------- *)

RECURSIVE SumOutput(_, _)
SumOutput(ui, n) ==
    IF n = 0 THEN 0 ELSE ui[n].output_chars + SumOutput(ui, n - 1)

RECURSIVE SumError(_, _)
SumError(ui, n) ==
    IF n = 0 THEN 0 ELSE ui[n].error_chars + SumError(ui, n - 1)

\* C1: whenever the loop is about to read input, output_chars_printed is the
\* sum of output_chars over the entries below input_num, and
\* error_chars_printed is the sum of their error_chars.
C1_CountersAreAttributedSums ==
    pc = "read" =>
        /\ output_chars_printed = SumOutput(user_input, input_num)
        /\ error_chars_printed = SumError(user_input, input_num)

\* C2: an ordinary-input turn of k lines followed at once by k undo turns
\* leaves input_num and both counters as they were before the append.
C2_AppendThenUndosRestores ==
    (probe.k > 0 /\ probe.undone = probe.k) =>
        /\ input_num = probe.input_num
        /\ output_chars_printed = probe.ocp
        /\ error_chars_printed = probe.ecp

\* a block of MaxBlock lines whose run displayed new output on both streams,
\* appended when output had been displayed before, and then undone line by line
C2_Witness ==
    /\ probe.k = MaxBlock
    /\ probe.undone = probe.k
    /\ probe.shown
    /\ probe.ocp > 0
    /\ probe.input_num > 0

C3_Step ==
    /\ turn'.kind = "input" =>
          /\ input_num' = Len(user_input')
          /\ Len(user_input') = input_num + Len(turn'.inp)
          /\ SubSeq(user_input', 1, input_num) = SubSeq(user_input, 1, input_num)
          /\ Inps(SubSeq(user_input', input_num + 1, input_num')) = turn'.inp
    /\ (turn.kind = "input" /\ turn'.kind = "redo") =>
          /\ turn'.ret = None
          /\ UNCHANGED <<user_input, input_num, output_chars_printed,
                         error_chars_printed, compile_error>>

\* C3: an ordinary-input turn keeps the entries below input_num, discards the
\* others and pushes the new lines, so that input_num = len(user_input)
\* afterwards; a redo right after it returns nothing and changes no state.
C3_AppendDiscardsRedoable == [][C3_Step]_vars

\* a redo right after an ordinary input that discarded redo-able entries
C3_Witness ==
    /\ turn.kind = "redo"
    /\ turn.prev = "truncating input"
    /\ turn.ret = None

C4_Step ==
    (turn.kind = "undo" /\ turn.ret # None /\ turn'.kind = "redo") =>
        /\ turn'.ret = turn.ret
        /\ input_num' = Len(turn.before)
        /\ Visible(user_input', input_num') = turn.before

\* C4: a redo right after an undo that undid a line returns the text the undo
\* returned and restores input_num and the texts and classification flags of
\* the entries below it.
C4_UndoThenRedoRestoresPrefix == [][C4_Step]_vars

\* a redo right after an undo, with an earlier entry still below the redone
\* one and a redo-able entry still above it
C4_Witness ==
    /\ turn.kind = "redo"
    /\ turn.prev = "undo"
    /\ turn.ret # None
    /\ input_num >= 2
    /\ input_num < Len(user_input)

C5_Step ==
    (turn'.compiled /\ ~turn'.accepted) =>
        /\ ~turn'.ran
        /\ turn'.out = None
        /\ turn'.err = None
        /\ output_chars_printed' = output_chars_printed
        /\ error_chars_printed' = error_chars_printed
        /\ pc' = "read"
        /\ turn'.kind = "input" =>
              /\ input_num' = input_num + Len(turn'.inp)
              /\ Inps(user_input') =
                     Inps(SubSeq(user_input, 1, input_num)) \o turn'.inp

\* C5: when the compiler rejects the program the binary is not run and nothing
\* is displayed, the lines appended in the turn stay in user_input below
\* input_num, both counters keep their values, and the loop reads on.
C5_FailedCompileKeepsState == [][C5_Step]_vars

\* an ordinary input that did not compile, after output had been displayed
C5_Witness ==
    /\ turn.kind = "input"
    /\ turn.compiled
    /\ ~turn.accepted
    /\ output_chars_printed > 0
    /\ error_chars_printed > 0

C6_Step ==
    /\ (turn'.compiled /\ ~turn'.accepted) =>
          /\ compile_error' \notin {None, <<>>}
          /\ compile_error' =
                 IF turn'.diag = <<>> THEN PlaceholderError ELSE turn'.diag
    /\ (turn'.compiled /\ turn'.accepted) => compile_error' = None
    /\ ~turn'.compiled => compile_error' = compile_error
    /\ turn'.kind = "show-errors" =>
          /\ turn'.said = <<"No compile errors">>
                 <=> last_compile' \in {"ok", "none"}
          /\ turn'.said # <<"No compile errors">> => turn'.said = compile_error'

\* C6: a failed compile leaves a non-empty compile_error (the placeholder when
\* the compiler wrote nothing), a successful compile leaves None, no turn
\* without a compile changes compile_error, and .e prints "No compile errors"
\* exactly when the last compile succeeded or none has happened.
C6_CompileErrorReflectsLastCompile == [][C6_Step]_vars

\* .e showing the placeholder after a compiler that failed without output
C6_Witness ==
    /\ turn.kind = "show-errors"
    /\ turn.said = PlaceholderError
    /\ last_compile = "failed"

\* the bytes of stream from offset k to its end
BytesFrom(stream, k) == SubSeq(stream, Max(k, 0) + 1, Len(stream))

C7_Step ==
    turn'.ran =>
        /\ Len(turn'.stdout) > output_chars_printed =>
              /\ turn'.out = BytesFrom(turn'.stdout, output_chars_printed)
              /\ output_chars_printed' = Len(turn'.stdout)
        /\ Len(turn'.stderr) > error_chars_printed =>
              /\ turn'.err = BytesFrom(turn'.stderr, error_chars_printed)
              /\ error_chars_printed' = Len(turn'.stderr)

\* C7: in a successful run whose captured stream is longer than its counter,
\* the bytes displayed are the captured bytes from offset counter to the end
\* and the counter is the captured length afterwards.
C7_DisplaysSuffixAndCountsAll == [][C7_Step]_vars

\* the role section 4.1 gives an entry: a directive pattern match wins
Role(a) ==
    IF a.is_include THEN "directive"
    ELSE IF a.is_function THEN "function" ELSE "statement"

IsDirectiveRole(a) == Role(a) = "directive"

IsFunctionRole(a) == Role(a) = "function"

IsStatementRole(a) == Role(a) = "statement"

\* the visible lines in category order, each category in submission order
CategoryOrder(ui, n) ==
    Inps(SelectSeq(get_user_input(ui, n), IsDirectiveRole))
        \o Inps(SelectSeq(get_user_input(ui, n), IsFunctionRole))
        \o Inps(SelectSeq(get_user_input(ui, n), IsStatementRole))

IsUserText(line) ==
    /\ ~IsBlankLine(line)
    /\ line \notin {BoilerplateLine, MainLine, ReturnLine, <<"}">>}

IsNotBlank(line) == ~IsBlankLine(line)

\* the non-blank lines of a program text that are not the template's own,
\* without their indentation
ProgramLines(text) ==
    LET kept == SelectSeq(text, IsUserText)
    IN  [i \in 1..Len(kept) |-> Unindent(kept[i])]

SectionsHolding(a) ==
    (IF IsInclude(a) THEN 1 ELSE 0) + (IF IsFunction(a) THEN 1 ELSE 0)
        + (IF IsCommand(a) THEN 1 ELSE 0)

\* C9: every visible line is placed in exactly one of the directive block, the
\* function-definition block and the statement block.
C9_ExactlyOneSection ==
    src # None =>
        \A i \in 1..input_num : SectionsHolding(user_input[i]) = 1

NoTwoBlankLines(text) ==
    \A i \in 1..(Len(text) - 1) :
        ~(IsBlankLine(text[i]) /\ IsBlankLine(text[i + 1]))

\* C10: the text get_full_source returns has no two consecutive blank lines,
\* and the blank-line collapse leaves it as it is.
C10_NoConsecutiveBlankLines ==
    src # None => NoTwoBlankLines(src) /\ clean_source(src) = src

\* a program assembled from a prefix with two blank statement lines in a row
\* and neither a directive nor a function definition
C10_Witness ==
    /\ src # None
    /\ \E i \in 1..(input_num - 1) :
          user_input[i].inp = LineSpace /\ user_input[i + 1].inp = LineSpace
    /\ get_user_includes_string(user_input, input_num) = EmptyStr
    /\ get_user_functions_string(user_input, input_num) = EmptyStr

\* the turns of the handlers that only display something
DisplayKinds ==
    {"help", "clear-screen", "show-errors", "list", "list-full", "visualize",
     "unknown"}

C11_Step ==
    /\ turn'.kind \in DisplayKinds =>
           /\ UNCHANGED <<user_input, input_num, output_chars_printed,
                          error_chars_printed, compile_error>>
           /\ ~turn'.compiled
           /\ ~turn'.ran
    /\ turn'.kind = "toggle-line-numbers" =>
           /\ UNCHANGED <<user_input, input_num, output_chars_printed,
                          error_chars_printed, compile_error, pc>>
           /\ show_line_numbers' = ~show_line_numbers
           /\ ~turn'.compiled
           /\ ~turn'.ran

\* C11: a help, clear-screen, show-errors, list, list-full, visualize or
\* unknown-command turn leaves user_input, input_num, both output counters
\* and compile_error unchanged and starts no compile and no run; a
\* toggle-line-numbers turn changes only show_line_numbers.
C11_DisplayTurnsChangeNothing == [][C11_Step]_vars

\* an unknown command typed with the line numbers on, output on the
\* counters, a compile error stored and a redo-able entry in the history
C11_Witness ==
    /\ turn.kind = "unknown"
    /\ show_line_numbers
    /\ output_chars_printed > 0
    /\ compile_error \notin {None, <<>>}
    /\ input_num < Len(user_input)

\* the texts of all the entries of a history, active or redo-able
Entries(ui) == Visible(ui, Len(ui))

C12_Step ==
    /\ turn'.kind = "undo" =>
           /\ ~turn'.compiled
           /\ ~turn'.ran
           /\ Entries(user_input') = Entries(user_input)
    /\ turn'.kind = "redo" =>
           /\ turn'.compiled <=> input_num < Len(user_input)
           /\ turn'.ran <=> (turn'.compiled /\ turn'.accepted)
           /\ Entries(user_input') = Entries(user_input)

\* C12: an undo turn never compiles or runs, whether or not a line was
\* undone; a redo turn goes through the compile + run cycle once when
\* input_num < len(user_input) held before it and not at all otherwise (the
\* binary runs when that compile succeeds); neither turn adds or removes
\* entries of user_input.
C12_UndoNeverCompilesRedoOnce == [][C12_Step]_vars

\* a redo straight after an undo that compiled and ran the program and still
\* left an entry to redo
C12_Witness ==
    /\ turn.kind = "redo"
    /\ turn.prev = "undo"
    /\ turn.compiled
    /\ turn.ran
    /\ input_num < Len(user_input)

C13_Step ==
    /\ (turn'.kind = "undo" /\ input_num = 0) =>
           /\ turn'.ret = None
           /\ UNCHANGED <<user_input, input_num, output_chars_printed,
                          error_chars_printed>>
    /\ (turn'.kind = "redo" /\ input_num = Len(user_input)) =>
           /\ turn'.ret = None
           /\ UNCHANGED <<user_input, input_num, output_chars_printed,
                          error_chars_printed>>

\* C13: in every reachable state 0 <= input_num <= len(user_input); an undo
\* at input_num = 0 and a redo at input_num = len(user_input) return nothing
\* and leave user_input, input_num and both output counters unchanged.
C13_CursorInRange ==
    /\ [](0 <= input_num /\ input_num <= Len(user_input))
    /\ [][C13_Step]_vars

\* a redo with nothing to redo, on a history with entries and output counted
C13_Witness ==
    /\ turn.kind = "redo"
    /\ turn.ret = None
    /\ input_num = Len(user_input)
    /\ input_num > 0
    /\ output_chars_printed > 0

\* the line x, ignoring leading whitespace, begins with an include directive
\* or with the word using followed by whitespace
BeginsWithDirective(x) ==
    LET y == Unindent(x)
    IN  \/ At(y, 1) = "#" /\ At(y, SkipSpaces(y, 2)) = "include"
        \/ At(y, 1) = "using" /\ IsSpace(At(y, 2))

\* C14: every submitted line that, ignoring leading whitespace, begins with
\* an include directive or with `using` followed by whitespace is classified
\* as a directive (is_include), for a using line as for an include line;
\* stated for the lines of the visible prefix once the program is assembled.
C14_DirectiveIgnoringLeadingWhitespace ==
    src # None =>
        \A i \in 1..input_num :
            BeginsWithDirective(user_input[i].inp) => user_input[i].is_include

\* the loop of do_run was left / repl itself was left
Ended == {"done", "interrupted", "failed"}

Left == {"returned", "raised"}

C15_Step ==
    /\ (pc = "read" /\ turn'.kind \in {"end-of-input", "quit", "interrupt",
                                        "error"}) => pc' \in Ended
    /\ pc \in Ended \cup Left =>
           UNCHANGED <<user_input, input_num, compile_error,
                       output_chars_printed, error_chars_printed,
                       show_line_numbers, turn>>
    /\ pc \in Ended => pc' \in Left
    /\ (pc \in Ended /\ turn.kind \in {"end-of-input", "quit"}) =>
           pc' = "returned"

\* C15: end-of-input, the quit command, a keyboard interrupt and an error
\* raised during a turn all stop the loop (no turn follows), and when repl is
\* left the temporary executable file is not there any more; after
\* end-of-input and after quit repl returns normally.
C15_SessionEndRemovesTempFile ==
    /\ [](pc \in Left => exec_file # "present")
    /\ [][C15_Step]_vars

\* repl returned after a keyboard interrupt in a session whose compile had
\* written the executable, and the file is gone
C15_Witness ==
    /\ pc = "returned"
    /\ turn.kind = "interrupt"
    /\ last_compile = "ok"
    /\ exec_file = "absent"

C16_Step ==
    turn'.ran =>
        /\ turn'.out # None =>
               user_input'[input_num'].output_chars = Len(turn'.out)
        /\ turn'.err # None =>
               user_input'[input_num'].error_chars = Len(turn'.err)
        /\ \A i \in (input_num' + 1)..Len(user_input') :
               /\ user_input'[i].output_chars = user_input[i].output_chars
               /\ user_input'[i].error_chars = user_input[i].error_chars

\* C16: in every successful run that finds new output, the length of the new
\* output is attributed to the last active entry user_input[input_num-1],
\* also when the run follows a redo that leaves redo-able entries behind it;
\* a compile + run cycle does not change the byte counts of the entries at
\* index >= input_num.
C16_AttributesToLastActiveEntry == [][C16_Step]_vars

C17_Step ==
    turn'.ran =>
        /\ Len(turn'.stdout) <= output_chars_printed =>
               /\ turn'.out = None
               /\ output_chars_printed' = output_chars_printed
               /\ user_input'[input_num'].output_chars = 0
        /\ Len(turn'.stderr) <= error_chars_printed =>
               /\ turn'.err = None
               /\ error_chars_printed' = error_chars_printed
               /\ user_input'[input_num'].error_chars = 0

\* C17: in every successful run whose captured stream is not longer than
\* the stream's counter, nothing is displayed for the stream, the counter is
\* unchanged, and the count of the last active entry user_input[input_num-1]
\* for the stream is zero afterwards, also when a redo reactivated the entry
\* with a count from an earlier run.
C17_NoNewOutputAttributesZero == [][C17_Step]_vars

\* C18: output_chars_printed and error_chars_printed are never negative,
\* after any interleaving of ordinary-input, undo and redo turns.
C18_CountersNeverNegative ==
    /\ output_chars_printed >= 0
    /\ error_chars_printed >= 0

C19_Step ==
    turn'.ran =>
        ShownPositions(turn', output_chars_printed) \cap seen = {}

\* C19: with the binary's output being the concatenation, in order, of the
\* fixed output of each visible statement line, a byte of standard output
\* whose line has stayed visible ever since the byte was first displayed is
\* never displayed a second time, also after a multi-line block was
\* submitted and only some of its lines were undone.
C19_NoByteDisplayedTwice == [][C19_Step]_vars

====
